---- MODULE Spec2Model ----
(***************************************************************************)
(* Model of litellm/proxy/hooks/parallel_request_limiter.py:               *)
(* _PROXY_MaxParallelRequestsHandler, the proxy's parallel-request and     *)
(* rate-limit gate.  Three hooks (async_pre_call_hook,                     *)
(* async_log_success_event, async_log_failure_event) read and write        *)
(* per-minute usage buckets and a process-wide in-flight counter in a      *)
(* shared cache.  Every cache operation a hook awaits is one atomic step;  *)
(* hooks of different requests interleave between those steps.  The        *)
(* batch write scheduled by admission (asyncio.create_task) is a step of   *)
(* its own that lands at any later time.                                   *)
(***************************************************************************)
EXTENDS Integers, Sequences, FiniteSets, TLC

\* ------------------------------------------------------------------ bounds
NumSerial == 3        \* requests of a behaviour whose hooks run one at a time
NumConcurrent == 2    \* requests of a behaviour whose hooks interleave
MaxTokens == 2        \* largest usage.total_tokens a response reports
MaxMinute == 1        \* wall-clock minutes 0..MaxMinute

MaxRequests == IF NumSerial > NumConcurrent THEN NumSerial + 2 ELSE NumConcurrent + 1

\* ------------------------------------------------------- program constants
None == -1                         \* Python None for an optional integer
maxsize == 2147483647              \* sys.maxsize, as the largest integer of the model
TTL == 60                          \* ttl=60 of every bucket write
STATUS_429 == 429
NoId == "<None>"                   \* Python None for an optional id
api_key == "key1"
GLOBAL_KEY == "global_max_parallel_requests"
MAX_PARALLEL_PHRASE == "Max parallel request limit reached"
VIRTUAL_KEY == "RATE_LIMIT_ERROR_MESSAGE_FOR_VIRTUAL_KEY"
Models == {"gpt-4", "gpt-3.5"}

VARIABLES
  cfg,      \* the principal (UserAPIKeyAuth), the request metadata, and the workload:
            \* the times of the minute and the total_tokens it draws from, whether
            \* hooks interleave, whether the minute passes
  cache,    \* internal_usage_cache: key -> bucket, and GLOBAL_KEY -> integer
  expires,  \* key -> the minute in which the entry's 60 s TTL runs out
  minute,   \* the wall clock's minute
  req,      \* per request: position in its hooks, their locals, the outcome
  task,     \* per request: the batch write created by admission, not yet landed
  late      \* history: some hook started while an admission write was in flight

vars == <<cfg, cache, expires, minute, req, task, late>>

\* the requests of the behaviour
Requests == DOMAIN req

\* ------------------------------------------------------------ value types
Bucket(r, t, p) == [current_requests |-> r, current_tpm |-> t, current_rpm |-> p]

NoError == [status_code |-> 0, detail |-> <<>>, retry_after |-> 0]

\* datetime.now().strftime("%Y-%m-%d") - %H - %M
PreciseMinute(m) == "2024-01-01-00-0" \o ToString(m)

\* f"{id}::{precise_minute}::request_count"
RequestCountKey(id, pm) == id \o "::" \o PreciseMinute(pm) \o "::request_count"

\* f"{api_key}::{_model}::{precise_minute}::request_count"
ModelRequestCountKey(key, model, pm) ==
  key \o "::" \o model \o "::" \o PreciseMinute(pm) \o "::request_count"

\* x if x is not None else sys.maxsize
OrMaxsize(x) == IF x = None THEN maxsize ELSE x

\* ------------------------------------------------------------- CacheStore
\* async_get_cache: the value, or None (here <<>>) when the key is absent
CacheGet(c, k) == IF k \in DOMAIN c THEN <<c[k]>> ELSE <<>>

\* async_set_cache(key, value)
CacheSet(c, k, v) == [x \in DOMAIN c \cup {k} |-> IF x = k THEN v ELSE c[x]]

\* async_batch_set_cache(cache_list): the pairs are set in order
RECURSIVE BatchSet(_, _)
BatchSet(c, list) ==
  IF list = <<>> THEN c
  ELSE BatchSet(CacheSet(c, Head(list)[1], Head(list)[2]), Tail(list))

\* async_increment_cache(key, value): atomic add, created as the delta if absent
CacheIncrement(c, k, delta) ==
  CacheSet(c, k, (IF k \in DOMAIN c THEN c[k] ELSE 0) + delta)

\* the TTL bookkeeping of a write made in minute m: it runs out a minute later
RECURSIVE Touch(_, _, _)
Touch(e, list, m) ==
  IF list = <<>> THEN e
  ELSE Touch(CacheSet(e, Head(list)[1], m + 1), Tail(list), m)

\* ------------------------------------------------------ errors and reasons
\* time_to_next_minute(), in microseconds
\* a time of day within the hour, in microseconds
Microseconds(t) == (t.minute * 60 + t.second) * 1000000 + t.microsecond

\* the time to the next minute that ignores the microseconds of now
TimeToNextMinuteWholeSeconds(now) == (60 - now.second) * 1000000

TimeToNextMinute(now) ==
  LET at == [minute |-> 0, second |-> now.second, microsecond |-> now.microsecond]
      next_minute == [minute |-> at.minute + 1, second |-> 0, microsecond |-> 0]
  IN Microseconds(next_minute) - Microseconds(at)

\* "<phrase>" in str(kwargs["exception"])
InStr(phrase, exc) == \E i \in DOMAIN exc.detail : exc.detail[i] = phrase

\* raise_rate_limit_error(additional_details)
RaiseRateLimitError(additional_details, now) ==
  [status_code |-> STATUS_429,
   detail |-> <<MAX_PARALLEL_PHRASE>> \o additional_details,
   retry_after |-> TimeToNextMinute(now)]

\* the HTTPException check_key_in_limits raises itself
CrossedLimitError(rate_limit_type, current, tpm_limit, rpm_limit, now) ==
  [status_code |-> STATUS_429,
   detail |-> <<"LiteLLM Rate Limit Handler for rate limit type = " \o rate_limit_type,
                "Crossed TPM, RPM Limit",
                "current rpm: " \o ToString(current.current_rpm),
                "rpm limit: " \o ToString(rpm_limit),
                "current tpm: " \o ToString(current.current_tpm),
                "tpm limit: " \o ToString(tpm_limit)>>,
   retry_after |-> TimeToNextMinute(now)]

\* what the evaluation of one scope yields: nothing, a pending write, a rejection
Pass == [kind |-> "pass", key |-> "", val |-> Bucket(0, 0, 0), error |-> NoError]
Write(k, v) == [kind |-> "write", key |-> k, val |-> v, error |-> NoError]
Reject(e) == [kind |-> "reject", key |-> "", val |-> Bucket(0, 0, 0), error |-> e]

\* ------------------------------------------------------- admission rules
\* the global in-flight check of async_pre_call_hook: a missing counter reads as 1
GlobalCheck(current_global_requests, global_max_parallel_requests, now) ==
  LET current == IF current_global_requests = <<>> THEN 1
                 ELSE current_global_requests[1]
  IN IF current >= global_max_parallel_requests
     THEN Reject(RaiseRateLimitError(
            <<"Hit Global Limit",
              "Limit=" \o ToString(global_max_parallel_requests),
              "current: " \o ToString(current)>>, now))
     ELSE Pass

\* the api_key scope comparing current_requests with <= instead of <
KeyScopeOffByOne(current, max_parallel_requests, tpm_limit, rpm_limit, pm, now) ==
  IF /\ max_parallel_requests = maxsize
     /\ tpm_limit = maxsize
     /\ rpm_limit = maxsize
  THEN Pass
  ELSE IF max_parallel_requests = 0 \/ tpm_limit = 0 \/ rpm_limit = 0
  THEN Reject(RaiseRateLimitError(
         <<"Hit limit for " \o VIRTUAL_KEY \o ": " \o api_key,
           "max_parallel_requests: " \o ToString(max_parallel_requests),
           "tpm_limit: " \o ToString(tpm_limit),
           "rpm_limit: " \o ToString(rpm_limit)>>, now))
  ELSE IF current = <<>>
  THEN Write(RequestCountKey(api_key, pm), Bucket(1, 0, 0))
  ELSE IF /\ current[1].current_requests <= max_parallel_requests
          /\ current[1].current_tpm < tpm_limit
          /\ current[1].current_rpm < rpm_limit
  THEN Write(RequestCountKey(api_key, pm),
             Bucket(current[1].current_requests + 1,
                    current[1].current_tpm,
                    current[1].current_rpm))
  ELSE Reject(RaiseRateLimitError(
         <<"Hit limit for " \o VIRTUAL_KEY \o ": " \o api_key,
           "tpm_limit: " \o ToString(tpm_limit),
           "current_tpm " \o ToString(current[1].current_tpm),
           "rpm_limit: " \o ToString(rpm_limit),
           "current rpm " \o ToString(current[1].current_rpm)>>, now))

\* the api_key scope without the hard-zero rule
KeyScopeNoHardZero(current, max_parallel_requests, tpm_limit, rpm_limit, pm, now) ==
  IF /\ max_parallel_requests = maxsize
     /\ tpm_limit = maxsize
     /\ rpm_limit = maxsize
  THEN Pass
  ELSE IF FALSE   \* the rule is gone
  THEN Reject(RaiseRateLimitError(
         <<"Hit limit for " \o VIRTUAL_KEY \o ": " \o api_key,
           "max_parallel_requests: " \o ToString(max_parallel_requests),
           "tpm_limit: " \o ToString(tpm_limit),
           "rpm_limit: " \o ToString(rpm_limit)>>, now))
  ELSE IF current = <<>>
  THEN Write(RequestCountKey(api_key, pm), Bucket(1, 0, 0))
  ELSE IF /\ current[1].current_requests < max_parallel_requests
          /\ current[1].current_tpm < tpm_limit
          /\ current[1].current_rpm < rpm_limit
  THEN Write(RequestCountKey(api_key, pm),
             Bucket(current[1].current_requests + 1,
                    current[1].current_tpm,
                    current[1].current_rpm))
  ELSE Reject(RaiseRateLimitError(
         <<"Hit limit for " \o VIRTUAL_KEY \o ": " \o api_key,
           "tpm_limit: " \o ToString(tpm_limit),
           "current_tpm " \o ToString(current[1].current_tpm),
           "rpm_limit: " \o ToString(rpm_limit),
           "current rpm " \o ToString(current[1].current_rpm)>>, now))

\* the api_key scope of async_pre_call_hook
KeyScope(current, max_parallel_requests, tpm_limit, rpm_limit, pm, now) ==
  IF /\ max_parallel_requests = maxsize
     /\ tpm_limit = maxsize
     /\ rpm_limit = maxsize
  THEN Pass
  ELSE IF max_parallel_requests = 0 \/ tpm_limit = 0 \/ rpm_limit = 0
  THEN Reject(RaiseRateLimitError(
         <<"Hit limit for " \o VIRTUAL_KEY \o ": " \o api_key,
           "max_parallel_requests: " \o ToString(max_parallel_requests),
           "tpm_limit: " \o ToString(tpm_limit),
           "rpm_limit: " \o ToString(rpm_limit)>>, now))
  ELSE IF current = <<>>
  THEN Write(RequestCountKey(api_key, pm), Bucket(1, 0, 0))
  ELSE IF /\ current[1].current_requests < max_parallel_requests
          /\ current[1].current_tpm < tpm_limit
          /\ current[1].current_rpm < rpm_limit
  THEN Write(RequestCountKey(api_key, pm),
             Bucket(current[1].current_requests + 1,
                    current[1].current_tpm,
                    current[1].current_rpm))
  ELSE Reject(RaiseRateLimitError(
         <<"Hit limit for " \o VIRTUAL_KEY \o ": " \o api_key,
           "tpm_limit: " \o ToString(tpm_limit),
           "current_tpm " \o ToString(current[1].current_tpm),
           "rpm_limit: " \o ToString(rpm_limit),
           "current rpm " \o ToString(current[1].current_rpm)>>, now))

\* _tpm_limit_for_key_model.get(_model): None without a map, with an empty map
\* or without an entry for the model
ModelLimit(limit_map, model) ==
  IF limit_map # <<>> /\ model \in DOMAIN limit_map[1]
  THEN limit_map[1][model]
  ELSE None

\* get_key_model_tpm_limit(..) is not None or get_key_model_rpm_limit(..) is not None
HasModelLimits(c) == c.model_tpm_limit # <<>> \/ c.model_rpm_limit # <<>>

\* the per-model scope comparing current_rpm with > in place of >=
ModelScopeRpmOffByOne(current, tpm_limit_for_model, rpm_limit_for_model, model, pm, now) ==
  IF current = <<>>
  THEN Write(ModelRequestCountKey(api_key, model, pm), Bucket(1, 0, 0))
  ELSE IF tpm_limit_for_model # None \/ rpm_limit_for_model # None
  THEN IF /\ tpm_limit_for_model # None
          /\ current[1].current_tpm >= tpm_limit_for_model
       THEN Reject(RaiseRateLimitError(
              <<"Hit TPM limit for model: " \o model,
                "on " \o VIRTUAL_KEY \o ": " \o api_key,
                "tpm_limit: " \o ToString(tpm_limit_for_model),
                "current_tpm " \o ToString(current[1].current_tpm)>>, now))
       ELSE IF /\ rpm_limit_for_model # None
               /\ current[1].current_rpm > rpm_limit_for_model
       THEN Reject(RaiseRateLimitError(
              <<"Hit RPM limit for model: " \o model,
                "on " \o VIRTUAL_KEY \o ": " \o api_key,
                "rpm_limit: " \o ToString(rpm_limit_for_model),
                "current_rpm " \o ToString(current[1].current_rpm)>>, now))
       ELSE Write(ModelRequestCountKey(api_key, model, pm),
                  Bucket(current[1].current_requests + 1,
                         current[1].current_tpm,
                         current[1].current_rpm))
  ELSE Pass

\* the per-(api_key, model) scope of async_pre_call_hook
ModelScope(current, tpm_limit_for_model, rpm_limit_for_model, model, pm, now) ==
  IF current = <<>>
  THEN Write(ModelRequestCountKey(api_key, model, pm), Bucket(1, 0, 0))
  ELSE IF tpm_limit_for_model # None \/ rpm_limit_for_model # None
  THEN IF /\ tpm_limit_for_model # None
          /\ current[1].current_tpm >= tpm_limit_for_model
       THEN Reject(RaiseRateLimitError(
              <<"Hit TPM limit for model: " \o model,
                "on " \o VIRTUAL_KEY \o ": " \o api_key,
                "tpm_limit: " \o ToString(tpm_limit_for_model),
                "current_tpm " \o ToString(current[1].current_tpm)>>, now))
       ELSE IF /\ rpm_limit_for_model # None
               /\ current[1].current_rpm >= rpm_limit_for_model
       THEN Reject(RaiseRateLimitError(
              <<"Hit RPM limit for model: " \o model,
                "on " \o VIRTUAL_KEY \o ": " \o api_key,
                "rpm_limit: " \o ToString(rpm_limit_for_model),
                "current_rpm " \o ToString(current[1].current_rpm)>>, now))
       ELSE Write(ModelRequestCountKey(api_key, model, pm),
                  Bucket(current[1].current_requests + 1,
                         current[1].current_tpm,
                         current[1].current_rpm))
  ELSE Pass

\* the remaining-budget fields added to data["metadata"] after the model scope
RemainingLimits(new_val, tpm_limit_for_model, rpm_limit_for_model, model) ==
  [model |-> model,
   remaining_tokens |->
     IF new_val # <<>> /\ tpm_limit_for_model # None
     THEN <<tpm_limit_for_model - new_val[1].current_tpm>> ELSE <<>>,
   remaining_requests |->
     IF new_val # <<>> /\ rpm_limit_for_model # None
     THEN <<rpm_limit_for_model - new_val[1].current_rpm>> ELSE <<>>]

\* check_key_in_limits: the rule of the user, team and end-user scopes
CheckKeyInLimits(current, max_parallel_requests, tpm_limit, rpm_limit, request_count_api_key, rate_limit_type, now) ==
  IF current = <<>>
  THEN IF max_parallel_requests = 0 \/ tpm_limit = 0 \/ rpm_limit = 0
       THEN Reject(RaiseRateLimitError(
              <<"Hit limit for " \o rate_limit_type,
                "Current limits:",
                "max_parallel_requests: " \o ToString(max_parallel_requests),
                "tpm_limit: " \o ToString(tpm_limit),
                "rpm_limit: " \o ToString(rpm_limit)>>, now))
       ELSE Write(request_count_api_key, Bucket(1, 0, 0))
  ELSE IF /\ current[1].current_requests < max_parallel_requests
          /\ current[1].current_tpm < tpm_limit
          /\ current[1].current_rpm < rpm_limit
  THEN Write(request_count_api_key,
             Bucket(current[1].current_requests + 1,
                    current[1].current_tpm,
                    current[1].current_rpm))
  ELSE Reject(CrossedLimitError(rate_limit_type, current[1], tpm_limit, rpm_limit, now))

\* the id scopes with the team scope checked before the user scope
IdScopesTeamFirst(c, snap) ==
  SelectSeq(
    <<[id |-> c.team_id, tpm_limit |-> c.team_tpm_limit,
       rpm_limit |-> c.team_rpm_limit, rate_limit_type |-> "team",
       current |-> snap.request_count_team_id],
      [id |-> c.user_id, tpm_limit |-> c.user_tpm_limit,
       rpm_limit |-> c.user_rpm_limit, rate_limit_type |-> "user",
       current |-> snap.request_count_user_id],
      [id |-> c.end_user_id, tpm_limit |-> c.end_user_tpm_limit,
       rpm_limit |-> c.end_user_rpm_limit, rate_limit_type |-> "customer",
       current |-> snap.request_count_end_user_id]>>,
    LAMBDA s : s.id # NoId)

\* the user, team and end-user scopes the principal has, in the order checked
IdScopes(c, snap) ==
  SelectSeq(
    <<[id |-> c.user_id, tpm_limit |-> c.user_tpm_limit,
       rpm_limit |-> c.user_rpm_limit, rate_limit_type |-> "user",
       current |-> snap.request_count_user_id],
      [id |-> c.team_id, tpm_limit |-> c.team_tpm_limit,
       rpm_limit |-> c.team_rpm_limit, rate_limit_type |-> "team",
       current |-> snap.request_count_team_id],
      [id |-> c.end_user_id, tpm_limit |-> c.end_user_tpm_limit,
       rpm_limit |-> c.end_user_rpm_limit, rate_limit_type |-> "customer",
       current |-> snap.request_count_end_user_id]>>,
    LAMBDA s : s.id # NoId)

\* the three check_key_in_limits calls in turn; a rejection raises out of the hook
RECURSIVE CheckScopes(_, _, _, _)
CheckScopes(scopes, values_to_update_in_cache, pm, now) ==
  IF scopes = <<>>
  THEN [kind |-> "admit", vals |-> values_to_update_in_cache, error |-> NoError]
  ELSE LET s == Head(scopes)
           res == CheckKeyInLimits(s.current, maxsize, OrMaxsize(s.tpm_limit),
                                   OrMaxsize(s.rpm_limit),
                                   RequestCountKey(s.id, pm), s.rate_limit_type, now)
       IN IF res.kind = "reject"
          THEN [kind |-> "reject", vals |-> values_to_update_in_cache,
                error |-> res.error]
          ELSE CheckScopes(Tail(scopes),
                           IF res.kind = "write"
                           THEN Append(values_to_update_in_cache, <<res.key, res.val>>)
                           ELSE values_to_update_in_cache,
                           pm, now)

\* the pending writes dispatched whether or not a scope raised
ScheduledWritesAlways(out) == out.vals

\* asyncio.create_task(async_batch_set_cache(values_to_update_in_cache)): reached
\* only when no scope raised; a raise drops the list with the hook's frame
ScheduledWrites(out) == IF out.kind = "admit" THEN out.vals ELSE <<>>

\* get_all_cache_objects: one batch read of the principal's buckets
GetAllCacheObjects(c, ids, pm) ==
  [request_count_api_key |-> CacheGet(c, RequestCountKey(api_key, pm)),
   request_count_user_id |->
     IF ids.user_id # NoId THEN CacheGet(c, RequestCountKey(ids.user_id, pm)) ELSE <<>>,
   request_count_team_id |->
     IF ids.team_id # NoId THEN CacheGet(c, RequestCountKey(ids.team_id, pm)) ELSE <<>>,
   request_count_end_user_id |->
     IF ids.end_user_id # NoId
     THEN CacheGet(c, RequestCountKey(ids.end_user_id, pm)) ELSE <<>>]

NoSnap ==
  [request_count_api_key |-> <<>>, request_count_user_id |-> <<>>,
   request_count_team_id |-> <<>>, request_count_end_user_id |-> <<>>]

\* -------------------------------------------------- reconciliation rules
\* the release of the slot without the floor at 0
SuccessNewValNoFloor(current, total_tokens) ==
  Bucket(current.current_requests - 1,
         current.current_tpm + total_tokens,
         current.current_rpm + 1)

\* the success update that does not count the request
SuccessNewValNoRpm(current, total_tokens) ==
  Bucket(IF current.current_requests - 1 > 0 THEN current.current_requests - 1 ELSE 0,
         current.current_tpm + total_tokens,
         current.current_rpm)

\* the success update that does not add the tokens
SuccessNewValNoTokens(current, total_tokens) ==
  Bucket(IF current.current_requests - 1 > 0 THEN current.current_requests - 1 ELSE 0,
         current.current_tpm,
         current.current_rpm + 1)

\* new_val of async_log_success_event
SuccessNewVal(current, total_tokens) ==
  Bucket(IF current.current_requests - 1 > 0 THEN current.current_requests - 1 ELSE 0,
         current.current_tpm + total_tokens,
         current.current_rpm + 1)

\* the default of the user scope taken for every scope
SuccessDefaultKeyAsUser(scope, total_tokens) ==
  Bucket(1, total_tokens, 1)

\* the value async_log_success_event takes for an absent bucket, per scope
SuccessDefault(scope, total_tokens) ==
  IF scope \in {"key", "model"} THEN Bucket(1, 0, 0)
  ELSE Bucket(1, total_tokens, 1)

\* the scopes async_log_success_event updates, in order
SuccessScopes(c) ==
  SelectSeq(<<"key", "model", "user", "team", "customer">>,
            LAMBDA s : CASE s = "key" -> TRUE
                         [] s = "model" -> HasModelLimits(c)
                         [] s = "user" -> c.user_id # NoId
                         [] s = "team" -> c.team_id # NoId
                         [] OTHER -> c.end_user_id # NoId)

\* the bucket key of a scope in async_log_success_event
ScopeKey(c, scope, model, pm) ==
  CASE scope = "key" -> RequestCountKey(api_key, pm)
    [] scope = "model" -> ModelRequestCountKey(api_key, model, pm)
    [] scope = "user" -> RequestCountKey(c.user_id, pm)
    [] scope = "team" -> RequestCountKey(c.team_id, pm)
    [] OTHER -> RequestCountKey(c.end_user_id, pm)

\* the failure update that counts the request as the success update does
FailureNewValCountsRpm(current) ==
  Bucket(IF current.current_requests - 1 > 0 THEN current.current_requests - 1 ELSE 0,
         current.current_tpm,
         current.current_rpm + 1)

\* the failure update that leaves current_requests as read
FailureNewValNoRelease(current) ==
  Bucket(current.current_requests, current.current_tpm, current.current_rpm)

\* new_val of async_log_failure_event
FailureNewVal(current) ==
  Bucket(IF current.current_requests - 1 > 0 THEN current.current_requests - 1 ELSE 0,
         current.current_tpm,
         current.current_rpm)

\* the bucket async_log_failure_event takes when the key's bucket is absent
FailureDefault == Bucket(1, 0, 0)

\* the error of an upstream failure, e.g. "connection reset"
UpstreamError == [status_code |-> 500, detail |-> <<"connection reset">>, retry_after |-> 0]

\* ------------------------------------------------------------ the state
IdleReq ==
  [pc |-> "idle", model |-> "", pm |-> 0, snap |-> NoSnap, vals |-> <<>>,
   new_val |-> <<>>, meta |-> <<>>, outcome |-> "none", error |-> NoError,
   hook |-> "none", tokens |-> 0, scope |-> 0, orphan |-> FALSE,
   gate_error |-> FALSE, before |-> <<>>, end_user |-> NoId]

\* a principal with no id but the api key and every limit unset
NoLimits ==
  [max_parallel_requests |-> None, tpm_limit |-> None, rpm_limit |-> None,
   user_id |-> NoId, user_tpm_limit |-> None, user_rpm_limit |-> None,
   team_id |-> NoId, team_tpm_limit |-> None, team_rpm_limit |-> None,
   end_user_id |-> NoId, end_user_tpm_limit |-> None, end_user_rpm_limit |-> None,
   model_tpm_limit |-> <<>>, model_rpm_limit |-> <<>>,
   global_max_parallel_requests |-> None,
   clock |-> {[second |-> 30, microsecond |-> 0]},
   tokens |-> {1}, serial |-> TRUE, prompt |-> FALSE, orphans |-> FALSE,
   ticks |-> FALSE, end_users |-> <<>>]

\* the end-user ids request r of the key may carry: the auth layer fills
\* user_api_key_dict.end_user_id from each request's own `user` field; a
\* workload names the end users of its first requests, the last one sends the rest
EndUsersOf(c, r) ==
  IF c.end_users = <<>> THEN {c.end_user_id}
  ELSE {c.end_users[IF r <= Len(c.end_users) THEN r ELSE Len(c.end_users)]}

\* user_api_key_dict as a hook of request q is handed it
UserApiKeyDict(q) == [cfg EXCEPT !.end_user_id = q.end_user]

InitWith(configs, n) ==
  /\ cfg \in configs
  /\ cache = <<>>
  /\ expires = <<>>
  /\ minute = 0
  /\ req = [r \in 1..n |-> IdleReq]
  /\ task = [r \in 1..n |-> <<>>]
  /\ late = FALSE

\* the per-minute buckets and their values
Buckets(c) == [k \in DOMAIN c \ {GLOBAL_KEY} |-> c[k]]

\* history: another request enters a hook, so the admission-to-reconciliation
\* cycle of q is no longer run on its own and its record of the buckets it
\* started from is dropped
Interleaved(q) == [q EXCEPT !.before = <<>>]

\* request r enters a hook as record rec; every other request is interleaved with
Enter(r, rec) == [q \in DOMAIN req |-> IF q = r THEN rec ELSE Interleaved(req[q])]

\* a hook of request r is between its first and its last step
Running(r) == req[r].pc \notin {"idle", "admitted", "rejected", "done"}
NoHookRunning == \A r \in Requests : ~Running(r)
InFlight == \E r \in Requests : task[r] # <<>>
\* requests are interchangeable until they start: they start in index order
Ordered(r) == IF r = 1 THEN TRUE ELSE req[r - 1].pc # "idle"
\* a hook may be entered: at any time, or in a serialised workload when none runs,
\* and where the event loop runs the write task first, when that write has landed
MayStart(r) ==
  /\ r \in Requests
  /\ cfg.serial => NoHookRunning
  /\ cfg.prompt => ~InFlight

\* ----------------------------------------------------- async_pre_call_hook
\* the hook is entered with the request's model and end-user id
StartPre(r, model, end_user) ==
  /\ MayStart(r)
  /\ req[r].pc = "idle"
  /\ Ordered(r)
  /\ req' = Enter(r,
       [req[r] EXCEPT !.model = model,
                 !.end_user = end_user,
                 !.pc = IF cfg.global_max_parallel_requests # None
                        THEN "pre_get_global" ELSE "pre_batch_get",
                 !.pm = IF cfg.global_max_parallel_requests # None THEN @ ELSE minute,
                 !.before = IF cfg.serial /\ cfg.prompt
                           THEN <<Buckets(cache)>> ELSE <<>>])
  /\ late' = (late \/ InFlight)
  /\ UNCHANGED <<cfg, cache, expires, minute, task>>

\* the hook returns (admitted) or raises (rejected)
Finish(r, out, meta) ==
  /\ req' = [req EXCEPT ![r] =
       [IdleReq EXCEPT !.pc = IF out.kind = "admit" THEN "admitted" ELSE "rejected",
                       !.outcome = IF out.kind = "admit" THEN "admitted" ELSE "rejected",
                       !.model = req[r].model,
                       !.pm = req[r].pm,
                       !.error = out.error,
                       !.meta = meta,
                       !.end_user = req[r].end_user,
                       !.before = req[r].before]]
  /\ task' = [task EXCEPT ![r] = ScheduledWrites(out)]

\* await async_get_cache(GLOBAL_KEY, local_only=True), then the cap check
PreGetGlobal(r) ==
  /\ r \in Requests
  /\ req[r].pc = "pre_get_global"
  /\ \E now \in cfg.clock :
       LET res == GlobalCheck(CacheGet(cache, GLOBAL_KEY),
                              cfg.global_max_parallel_requests, now)
       IN IF res.kind = "reject"
          THEN Finish(r, [kind |-> "reject", vals |-> <<>>, error |-> res.error],
                      req[r].meta)
          ELSE /\ req' = [req EXCEPT ![r].pc = "pre_incr_global"]
               /\ UNCHANGED task
  /\ UNCHANGED <<cfg, cache, expires, minute, late>>

\* await async_increment_cache(GLOBAL_KEY, 1), then precise_minute is taken
PreIncrGlobal(r) ==
  /\ r \in Requests
  /\ req[r].pc = "pre_incr_global"
  /\ cache' = CacheIncrement(cache, GLOBAL_KEY, 1)
  /\ req' = [req EXCEPT ![r] = [@ EXCEPT !.pc = "pre_batch_get", !.pm = minute]]
  /\ UNCHANGED <<cfg, expires, minute, task, late>>

\* await get_all_cache_objects(..), then the api_key scope and, when no per-model
\* limits are configured, the user, team and end-user scopes
PreBatchGet(r) ==
  /\ r \in Requests
  /\ req[r].pc = "pre_batch_get"
  /\ \E now \in cfg.clock :
       LET q == req[r]
           snap == GetAllCacheObjects(cache, UserApiKeyDict(q), q.pm)
           key == KeyScope(snap.request_count_api_key,
                           OrMaxsize(cfg.max_parallel_requests),
                           OrMaxsize(cfg.tpm_limit), OrMaxsize(cfg.rpm_limit),
                           q.pm, now)
           vals == IF key.kind = "write" THEN << <<key.key, key.val>> >> ELSE <<>>
           new_val == IF key.kind = "write" THEN <<key.val>> ELSE <<>>
       IN IF key.kind = "reject"
          THEN Finish(r, [kind |-> "reject", vals |-> vals, error |-> key.error],
                      q.meta)
          ELSE IF HasModelLimits(cfg)
          THEN /\ req' = [req EXCEPT ![r] =
                    [q EXCEPT !.pc = "pre_model_get", !.snap = snap,
                              !.vals = vals, !.new_val = new_val]]
               /\ UNCHANGED task
          ELSE Finish(r, CheckScopes(IdScopes(UserApiKeyDict(q), snap), vals,
                                     q.pm, now), q.meta)
  /\ UNCHANGED <<cfg, cache, expires, minute, late>>

\* await async_get_cache(per-model key), the per-model scope, the metadata update,
\* then the user, team and end-user scopes from the batch read made earlier
PreModelGet(r) ==
  /\ r \in Requests
  /\ req[r].pc = "pre_model_get"
  /\ \E now \in cfg.clock :
       LET q == req[r]
           current == CacheGet(cache, ModelRequestCountKey(api_key, q.model, q.pm))
           tpm_limit_for_model == ModelLimit(cfg.model_tpm_limit, q.model)
           rpm_limit_for_model == ModelLimit(cfg.model_rpm_limit, q.model)
           res == ModelScope(current, tpm_limit_for_model, rpm_limit_for_model,
                             q.model, q.pm, now)
           vals == IF res.kind = "write"
                   THEN Append(q.vals, <<res.key, res.val>>) ELSE q.vals
           new_val == IF res.kind = "write" THEN <<res.val>> ELSE q.new_val
           meta == <<RemainingLimits(new_val, tpm_limit_for_model,
                                     rpm_limit_for_model, q.model)>>
       IN IF res.kind = "reject"
          THEN Finish(r, [kind |-> "reject", vals |-> vals, error |-> res.error],
                      q.meta)
          ELSE Finish(r, CheckScopes(IdScopes(UserApiKeyDict(q), q.snap), vals,
                                     q.pm, now), meta)
  /\ UNCHANGED <<cfg, cache, expires, minute, late>>

\* the task created by admission runs: async_batch_set_cache(cache_list, ttl=60)
TaskLand(r) ==
  /\ r \in Requests
  /\ task[r] # <<>>
  /\ cache' = BatchSet(cache, task[r])
  /\ expires' = Touch(expires, task[r], minute)
  /\ task' = [task EXCEPT ![r] = <<>>]
  /\ UNCHANGED <<cfg, minute, req, late>>

\* ------------------------------------------------- async_log_success_event
\* a reconciliation hook returns; only the request's history is kept
Done(q) ==
  [IdleReq EXCEPT !.pc = "done", !.outcome = q.outcome, !.hook = q.hook,
                  !.tokens = q.tokens, !.orphan = q.orphan,
                  !.model = IF cfg.serial /\ cfg.prompt THEN q.model ELSE "",
                  !.gate_error = InStr(MAX_PARALLEL_PHRASE, q.error)]

BeginSuccess(r, total_tokens, model, orphan) ==
  /\ req' = Enter(r,
       [req[r] EXCEPT !.hook = "success", !.tokens = total_tokens, !.model = model,
                 !.end_user = IF orphan THEN cfg.end_user_id ELSE @,
                 !.orphan = orphan, !.vals = <<>>, !.scope = 1,
                 !.pc = IF cfg.global_max_parallel_requests # None
                        THEN "suc_decr_global" ELSE "suc_get",
                 !.pm = IF cfg.global_max_parallel_requests # None THEN @ ELSE minute])
  /\ late' = (late \/ InFlight)
  /\ UNCHANGED <<cfg, cache, expires, minute, task>>

\* the success hook of an admitted request, with the response's usage.total_tokens
StartSuccess(r, total_tokens) ==
  /\ MayStart(r)
  /\ req[r].pc = "admitted"
  /\ BeginSuccess(r, total_tokens, req[r].model, FALSE)

\* a success hook for a request this gate did not admit in this behaviour
OrphanSuccess(r, total_tokens, model) ==
  /\ MayStart(r)
  /\ cfg.orphans
  /\ req[r].pc = "idle"
  /\ Ordered(r)
  /\ BeginSuccess(r, total_tokens, model, TRUE)

\* await async_increment_cache(GLOBAL_KEY, -1), then precise_minute is taken
SucDecrGlobal(r) ==
  /\ r \in Requests
  /\ req[r].pc = "suc_decr_global"
  /\ cache' = CacheIncrement(cache, GLOBAL_KEY, -1)
  /\ req' = [req EXCEPT ![r] = [@ EXCEPT !.pc = "suc_get", !.pm = minute]]
  /\ UNCHANGED <<cfg, expires, minute, task, late>>

\* await async_get_cache(key of the next scope) or its default, then new_val
SucGet(r) ==
  /\ r \in Requests
  /\ req[r].pc = "suc_get"
  /\ LET q == req[r]
         scopes == SuccessScopes(UserApiKeyDict(q))
         scope == scopes[q.scope]
         k == ScopeKey(UserApiKeyDict(q), scope, q.model, q.pm)
         got == CacheGet(cache, k)
         current == IF got # <<>> THEN got[1] ELSE SuccessDefault(scope, q.tokens)
         new_val == SuccessNewVal(current, q.tokens)
     IN req' = [req EXCEPT ![r] =
          [q EXCEPT !.vals = Append(q.vals, <<k, new_val>>),
                    !.scope = IF q.scope = Len(scopes) THEN 0 ELSE q.scope + 1,
                    !.pc = IF q.scope = Len(scopes) THEN "suc_batch_set" ELSE "suc_get"]]
  /\ UNCHANGED <<cfg, cache, expires, minute, task, late>>

\* await async_batch_set_cache(values_to_update_in_cache, ttl=60)
SucBatchSet(r) ==
  /\ r \in Requests
  /\ req[r].pc = "suc_batch_set"
  /\ cache' = BatchSet(cache, req[r].vals)
  /\ expires' = Touch(expires, req[r].vals, minute)
  /\ req' = [req EXCEPT ![r] = Done(@)]
  /\ UNCHANGED <<cfg, minute, task, late>>

\* ------------------------------------------------- async_log_failure_event
\* the failure hook without the test for the gate's own rejection message
BeginFailureNoPhraseCheck(r, exc, orphan) ==
  /\ req' = Enter(r,
       [req[r] EXCEPT !.hook = "failure", !.error = exc, !.orphan = orphan,
                      !.vals = <<>>,
                      !.pc = IF cfg.global_max_parallel_requests # None
                             THEN "fail_get_global" ELSE "fail_get",
                      !.pm = IF cfg.global_max_parallel_requests # None
                             THEN @ ELSE minute])
  /\ late' = (late \/ InFlight)
  /\ UNCHANGED <<cfg, cache, expires, minute, task>>

\* the hook is entered with kwargs["exception"]; the gate's own message ends it
BeginFailure(r, exc, orphan) ==
  /\ req' = Enter(r,
       IF InStr(MAX_PARALLEL_PHRASE, exc)
       THEN Done([req[r] EXCEPT !.hook = "failure", !.error = exc, !.orphan = orphan])
       ELSE [req[r] EXCEPT !.hook = "failure", !.error = exc, !.orphan = orphan,
                      !.vals = <<>>,
                      !.pc = IF cfg.global_max_parallel_requests # None
                             THEN "fail_get_global" ELSE "fail_get",
                      !.pm = IF cfg.global_max_parallel_requests # None
                             THEN @ ELSE minute])
  /\ late' = (late \/ InFlight)
  /\ UNCHANGED <<cfg, cache, expires, minute, task>>

\* the failure hook of an admitted request whose upstream call failed
StartFailure(r) ==
  /\ MayStart(r)
  /\ req[r].pc = "admitted"
  /\ BeginFailure(r, UpstreamError, FALSE)

\* the failure hook of a request admission rejected, with the rejection's error
StartFailureRejected(r) ==
  /\ MayStart(r)
  /\ req[r].pc = "rejected"
  /\ BeginFailure(r, req[r].error, FALSE)

\* a failure hook for a request this gate did not admit in this behaviour
OrphanFailure(r, exc) ==
  /\ MayStart(r)
  /\ cfg.orphans
  /\ req[r].pc = "idle"
  /\ Ordered(r)
  /\ BeginFailure(r, exc, TRUE)

\* await async_get_cache(GLOBAL_KEY, local_only=True): the value is not used
FailGetGlobal(r) ==
  /\ r \in Requests
  /\ req[r].pc = "fail_get_global"
  /\ req' = [req EXCEPT ![r].pc = "fail_decr_global"]
  /\ UNCHANGED <<cfg, cache, expires, minute, task, late>>

\* await async_increment_cache(GLOBAL_KEY, -1), then precise_minute is taken
FailDecrGlobal(r) ==
  /\ r \in Requests
  /\ req[r].pc = "fail_decr_global"
  /\ cache' = CacheIncrement(cache, GLOBAL_KEY, -1)
  /\ req' = [req EXCEPT ![r] = [@ EXCEPT !.pc = "fail_get", !.pm = minute]]
  /\ UNCHANGED <<cfg, expires, minute, task, late>>

\* await async_get_cache(api_key bucket) or the default, then new_val
FailGet(r) ==
  /\ r \in Requests
  /\ req[r].pc = "fail_get"
  /\ LET q == req[r]
         k == RequestCountKey(api_key, q.pm)
         got == CacheGet(cache, k)
         current == IF got # <<>> THEN got[1] ELSE FailureDefault
     IN req' = [req EXCEPT ![r] =
          [q EXCEPT !.vals = << <<k, FailureNewVal(current)>> >>, !.pc = "fail_set"]]
  /\ UNCHANGED <<cfg, cache, expires, minute, task, late>>

\* the failure hook's write releasing the user's bucket as well
FailSetReleasingUser(r) ==
  /\ r \in Requests
  /\ req[r].pc = "fail_set"
  /\ LET k == RequestCountKey(cfg.user_id, req[r].pm)
         got == CacheGet(cache, k)
         vals == IF cfg.user_id # NoId /\ got # <<>>
                 THEN Append(req[r].vals, <<k, FailureNewVal(got[1])>>)
                 ELSE req[r].vals
     IN /\ cache' = BatchSet(cache, vals)
        /\ expires' = Touch(expires, vals, minute)
  /\ req' = [req EXCEPT ![r] = Done(@)]
  /\ UNCHANGED <<cfg, minute, task, late>>

\* await async_set_cache(request_count_api_key, new_val, ttl=60)
FailSet(r) ==
  /\ r \in Requests
  /\ req[r].pc = "fail_set"
  /\ cache' = BatchSet(cache, req[r].vals)
  /\ expires' = Touch(expires, req[r].vals, minute)
  /\ req' = [req EXCEPT ![r] = Done(@)]
  /\ UNCHANGED <<cfg, minute, task, late>>

\* ---------------------------------------------------------------- the clock
\* the wall clock passes a minute boundary; entries whose TTL ran out go
Tick ==
  /\ cfg.ticks
  /\ minute < MaxMinute
  /\ minute' = minute + 1
  /\ LET live == {k \in DOMAIN cache : k \notin DOMAIN expires \/ expires[k] > minute}
     IN /\ cache' = [k \in live |-> cache[k]]
        /\ expires' = [k \in live \cap DOMAIN expires |-> expires[k]]
  /\ UNCHANGED <<cfg, req, task, late>>

\* an entry written in the minute before reaches the 60 s of its TTL
Expire ==
  \E k \in DOMAIN cache :
    /\ k \in DOMAIN expires
    /\ expires[k] = minute
    /\ cache' = [x \in DOMAIN cache \ {k} |-> cache[x]]
    /\ expires' = [x \in DOMAIN expires \ {k} |-> expires[x]]
    /\ UNCHANGED <<cfg, minute, req, task, late>>

\* ------------------------------------------------------ specifications
\* the request's model matters only to the per-model scope
ModelsOf(c) == IF HasModelLimits(c) THEN Models ELSE {"gpt-4"}

\* errors a failure hook may be handed for a request not admitted here
OrphanErrors ==
  {UpstreamError,
   RaiseRateLimitError(<<"Hit Global Limit">>, [second |-> 30, microsecond |-> 0])}

\* a hook is entered
StartAny(r) ==
  \/ \E model \in ModelsOf(cfg), end_user \in EndUsersOf(cfg, r) :
       StartPre(r, model, end_user)
  \/ \E total_tokens \in cfg.tokens : StartSuccess(r, total_tokens)
  \/ StartFailure(r)
  \/ StartFailureRejected(r)
  \/ \E total_tokens \in cfg.tokens, model \in ModelsOf(cfg) :
       OrphanSuccess(r, total_tokens, model)
  \/ \E exc \in OrphanErrors : OrphanFailure(r, exc)

\* a hook resumes from an await
Step(r) ==
  \/ PreGetGlobal(r) \/ PreIncrGlobal(r) \/ PreBatchGet(r) \/ PreModelGet(r)
  \/ SucDecrGlobal(r) \/ SucGet(r) \/ SucBatchSet(r)
  \/ FailGetGlobal(r) \/ FailDecrGlobal(r) \/ FailGet(r) \/ FailSet(r)

\* every hook of every request; cfg.serial decides whether they interleave
Next ==
  \/ \E r \in 1..MaxRequests : StartAny(r) \/ Step(r) \/ TaskLand(r)
  \/ Tick
  \/ Expire

Concurrent(c) == [c EXCEPT !.serial = FALSE]
Orphans(c) == [c EXCEPT !.orphans = TRUE]
Ticking(c) == [c EXCEPT !.ticks = TRUE]
AnyTokens(c) == [c EXCEPT !.tokens = 0..MaxTokens]
WithTokens(c, total_tokens) == [c EXCEPT !.tokens = {total_tokens}]
Prompt(c) == [c EXCEPT !.prompt = TRUE]

\* principals: limits on the key, per model, on the user, on team and end user
KeyLimits(p, t, r) ==
  [NoLimits EXCEPT !.max_parallel_requests = p, !.tpm_limit = t, !.rpm_limit = r]
ModelLimits(tpm, rpm) ==
  [NoLimits EXCEPT !.model_tpm_limit = tpm, !.model_rpm_limit = rpm]
UserLimits(t, r) ==
  [NoLimits EXCEPT !.user_id = "user1", !.user_tpm_limit = t, !.user_rpm_limit = r]
TeamEndUserLimits(tt, tr, et, er) ==
  [NoLimits EXCEPT !.team_id = "team1", !.team_tpm_limit = tt, !.team_rpm_limit = tr,
                   !.end_user_id = "customer1", !.end_user_tpm_limit = et,
                   !.end_user_rpm_limit = er]
GlobalLimit(c, g) == [c EXCEPT !.global_max_parallel_requests = g]
OnlyModel(model, limit) == <<[m \in {model} |-> limit]>>

AtTimes(c, times) == [c EXCEPT !.clock = times]

\* the first and the last microsecond of a minute
MinuteEnds == {[second |-> 0, microsecond |-> 0], [second |-> 59, microsecond |-> 999999]}
\* instants on, just after, inside and just before a minute boundary
Instants ==
  MinuteEnds \cup {[second |-> 0, microsecond |-> 1],
                   [second |-> 30, microsecond |-> 500000],
                   [second |-> 59, microsecond |-> 0]}

\* a key whose tpm_limit, rpm_limit or max_parallel_requests is exactly 0
HardZeroKeys == {KeyLimits(0, None, None), KeyLimits(None, 0, None), KeyLimits(None, None, 0)}

\* every scope configured; the end user's tpm_limit of 0 rejects after the api_key,
\* per-model and user scopes have appended their pending writes
EveryScope ==
  [KeyLimits(2, None, None) EXCEPT
     !.model_rpm_limit = OnlyModel("gpt-4", 1),
     !.user_id = "user1", !.user_rpm_limit = 2,
     !.end_user_id = "customer1", !.end_user_tpm_limit = 0]

\* a key with two slots whose user may make one request a minute
KeyAndUser ==
  [KeyLimits(2, None, None) EXCEPT !.user_id = "user1", !.user_rpm_limit = 1]

\* every scope configured and none of them rejecting two requests
AllScopes ==
  [KeyLimits(2, None, None) EXCEPT
     !.model_rpm_limit = OnlyModel("gpt-4", 2),
     !.user_id = "user1", !.team_id = "team1", !.end_user_id = "customer1"]

\* a response that reports total_tokens = 137
\* user, team and end_user each with a limit of 0
ZeroIds ==
  [TeamEndUserLimits(0, None, None, 0) EXCEPT !.user_id = "user1", !.user_rpm_limit = 0]
\* every scope after the global one with a limit of 0
ZeroAll ==
  [ZeroIds EXCEPT !.rpm_limit = 0, !.model_rpm_limit = OnlyModel("gpt-4", 0)]
\* a per-model and a user rpm limit that are both reached after one success
ModelAndUser ==
  [ModelLimits(<<>>, OnlyModel("gpt-4", 1)) EXCEPT !.user_id = "user1", !.user_rpm_limit = 1]
FreshKey137 == WithTokens(KeyLimits(2, None, None), 137)

ConcurrentConfigs ==
  { Concurrent(c) : c \in
      { Orphans(KeyLimits(1, 2, 2)),
        AnyTokens(Orphans(KeyLimits(0, None, None))),
        ModelLimits(<<>>, OnlyModel("gpt-4", 1)),
        UserLimits(2, 1),
        TeamEndUserLimits(2, None, None, 1),
        EveryScope,
        Ticking(NoLimits) }
      \cup { Orphans(c) : c \in HardZeroKeys } }

\* one request more than the global cap admits
RacingConfigs == { Concurrent(GlobalLimit(NoLimits, NumConcurrent)) }

SerialConfigs ==
  { KeyLimits(1, 2, 2),
    AtTimes(KeyLimits(2, 100, 10), MinuteEnds),
    Prompt(KeyLimits(None, None, 1)),
    Prompt(KeyLimits(None, None, 2)),
    AnyTokens(NoLimits),
    Ticking(NoLimits),
    GlobalLimit(NoLimits, 1),
    GlobalLimit(NoLimits, 2),
    GlobalLimit(KeyLimits(None, None, 0), 2),
    Prompt(ModelLimits(<<>>, OnlyModel("gpt-4", 0))),
    Orphans(UserLimits(None, 0)),
    Orphans(TeamEndUserLimits(0, None, None, 0)),
    Prompt(KeyAndUser),
    Prompt(AllScopes),
    Prompt(FreshKey137),
    Prompt(ModelLimits(<<>>, OnlyModel("gpt-4", 1))),
    ZeroIds,
    ZeroAll,
    GlobalLimit(ZeroAll, 1),
    Prompt(ModelAndUser),
    AtTimes(KeyLimits(None, None, 0), Instants),
    Prompt(Ticking(GlobalLimit(NoLimits, 2))) }

\* one key with max_parallel_requests 2 shared by two end users, each allowed
\* one request a minute: three requests of the first, then those of the second
TwoCustomers ==
  [KeyLimits(2, None, None) EXCEPT
     !.end_user_id = "customer1", !.end_user_rpm_limit = 1,
     !.end_users = <<"customer1", "customer1", "customer1", "customer2">>]

\* serial workloads long enough for a key's slots to be filled a second time
CrowdConfigs == {Prompt(TwoCustomers)}

\* hooks of different requests interleave at every await
Spec ==
  /\ \/ InitWith(ConcurrentConfigs, NumConcurrent)
     \/ InitWith(RacingConfigs, NumConcurrent + 1)
  /\ [][Next]_vars

\* hooks run one at a time; the writes admission schedules land when they land
SpecSeq ==
  /\ \/ InitWith(SerialConfigs, NumSerial)
     \/ InitWith(CrowdConfigs, NumSerial + 2)
  /\ [][Next]_vars

\* ------------------------------------------------------------------ claims
\* the per-minute buckets of the cache
BucketKeys == DOMAIN cache \ {GLOBAL_KEY}

\* C1: after any sequence and interleaving of pre-call, success and failure
\* hook steps with total_tokens >= 0, every bucket in the cache has
\* current_requests >= 0, current_tpm >= 0 and current_rpm >= 0.
C1_BucketsNonNegative ==
  \A k \in BucketKeys :
    /\ cache[k].current_requests >= 0
    /\ cache[k].current_tpm >= 0
    /\ cache[k].current_rpm >= 0

\* a success and a failure hook have both released a slot of the key's bucket
\* that held none: the floor at 0 acted
C1_Witness ==
  /\ \E r \in Requests : req[r].pc = "done" /\ req[r].hook = "success" /\ req[r].orphan
  /\ \E r \in Requests : req[r].pc = "done" /\ req[r].hook = "failure" /\ req[r].orphan
                         /\ ~req[r].gate_error
  /\ \E k \in BucketKeys : cache[k].current_requests = 0 /\ cache[k].current_rpm = 1

\* ---- shared by the claims about the api_key scope
KeyBucket == RequestCountKey(api_key, 0)

\* only the api key carries limits: no global cap, no per-model limits, no ids
KeyOnly(c) ==
  /\ c.global_max_parallel_requests = None
  /\ ~HasModelLimits(c)
  /\ c.user_id = NoId /\ c.team_id = NoId /\ c.end_user_id = NoId

\* no success or failure hook has been entered; the minute has not passed
NoReconciliation == minute = 0 /\ \A r \in Requests : req[r].hook = "none"

\* the pre-call hook of request r has returned or raised
Decided(r) == req[r].pc \in {"admitted", "rejected"}

\* the first P of consecutive admissions are admitted, the next one is rejected
\* with a reason naming both limits and a retry-after of at most 60 s
FirstPThenReject(c) ==
  \A r \in Requests :
    /\ (r <= c.max_parallel_requests /\ Decided(r)) => req[r].outcome = "admitted"
    /\ (r = c.max_parallel_requests + 1 /\ Decided(r)) =>
         /\ req[r].outcome = "rejected"
         /\ InStr("tpm_limit: " \o ToString(OrMaxsize(c.tpm_limit)), req[r].error)
         /\ InStr("rpm_limit: " \o ToString(OrMaxsize(c.rpm_limit)), req[r].error)
         /\ req[r].error.retry_after <= 60 * 1000000

C2_Case ==
  /\ KeyOnly(cfg)
  /\ cfg.max_parallel_requests >= 1
  /\ cfg.tpm_limit # 0 /\ cfg.rpm_limit # 0
  /\ NoReconciliation

\* C2 as stated: for a key with max_parallel_requests = P and no bucket yet, P+1
\* consecutive admissions without reconciliation (each pre-call hook returns
\* before the next starts) admit the first P and reject the (P+1)-th, naming
\* tpm_limit and rpm_limit, with a retry-after of at most 60 seconds.
C2_AsStated == C2_Case => FirstPThenReject(cfg)

\* C2, amended: the same, provided the bucket write each admission schedules
\* has landed before the next pre-call hook starts.
C2_AdmitsFirstPWhenWritesLanded == (C2_Case /\ ~late) => FirstPThenReject(cfg)

\* limits 2/100/10: #1 and #2 admitted and their writes landed, #3 rejected
C2_Witness ==
  /\ C2_Case /\ ~late
  /\ cfg.max_parallel_requests = 2 /\ cfg.tpm_limit = 100 /\ cfg.rpm_limit = 10
  /\ req[1].outcome = "admitted" /\ req[2].outcome = "admitted"
  /\ req[3].pc = "rejected"
  /\ InStr("tpm_limit: 100", req[3].error)
  /\ KeyBucket \in DOMAIN cache /\ cache[KeyBucket] = Bucket(2, 0, 0)

\* ---- C3
\* only rpm_limit = R >= 1 is set on the key
C3_Case ==
  /\ KeyOnly(cfg)
  /\ cfg.max_parallel_requests = None /\ cfg.tpm_limit = None
  /\ cfg.rpm_limit >= 1
  /\ minute = 0
  /\ ~late

\* C3 as stated: for a key with rpm_limit = R (other limits unbounded), if no
\* success or failure reconciliation runs, the (R+1)-th admission for that key
\* in the same minute is rejected (here even with every scheduled write landed).
C3_AsStated ==
  (C3_Case /\ NoReconciliation) =>
    \A r \in Requests :
      (r = cfg.rpm_limit + 1 /\ Decided(r)) => req[r].outcome = "rejected"

\* the success hook of request q has run to its end for a request admitted here
Reconciled(q) ==
  /\ req[q].pc = "done" /\ req[q].hook = "success"
  /\ req[q].outcome = "admitted" /\ ~req[q].orphan

\* C3, amended: for a key with rpm_limit = R (other limits unbounded), in a
\* serialised workload whose writes land before the next hook starts, once R
\* admissions of the minute have each been followed by their success
\* reconciliation, the next admission of that minute is rejected.
C3_RejectsAfterRSuccesses ==
  [][\A r \in Requests :
       ( /\ C3_Case
         /\ r = cfg.rpm_limit + 1
         /\ \A q \in 1..(r - 1) : Reconciled(q)
         /\ req[r].pc = "pre_batch_get"
         /\ req'[r].pc # "pre_batch_get" )
       => req'[r].outcome = "rejected"]_vars

\* rpm_limit = 2: two admit/success pairs, then the third admission is rejected
C3_Witness ==
  /\ C3_Case
  /\ cfg.rpm_limit = 2
  /\ Reconciled(1) /\ Reconciled(2)
  /\ req[3].pc = "rejected"
  /\ InStr("current rpm 2", req[3].error)

\* ---- C4
RECURSIVE SumTokens(_)
SumTokens(S) ==
  IF S = {} THEN 0
  ELSE LET r == CHOOSE x \in S : TRUE IN req[r].tokens + SumTokens(S \ {r})

\* the requests whose admit/success pair is complete
Pairs == {r \in Requests : Reconciled(r)}

\* a serialised workload of admit/success pairs, all in one minute, every write
\* landed before the next hook started, none of the key's limits set
C4_Case ==
  /\ KeyOnly(cfg)
  /\ cfg.max_parallel_requests = None /\ cfg.tpm_limit = None /\ cfg.rpm_limit = None
  /\ cfg.serial /\ ~late /\ minute = 0
  /\ \A r \in Requests : req[r].pc = "idle" \/ Reconciled(r)
  /\ Pairs # {}

\* C4: under a serialised workload of N admit-then-success pairs for the same
\* api_key in one minute, with all of the key's limits unset, the key's bucket
\* ends with current_rpm = N, current_tpm = the sum of the N reported
\* total_tokens and current_requests = 0.
C4_SerialPairsAccount ==
  C4_Case =>
    /\ KeyBucket \in DOMAIN cache
    /\ cache[KeyBucket] = Bucket(0, SumTokens(Pairs), Cardinality(Pairs))

\* N = NumSerial pairs with different token counts
C4_Witness ==
  /\ C4_Case
  /\ Pairs = Requests
  /\ \E r \in Requests : req[r].tokens = MaxTokens
  /\ \E r \in Requests : req[r].tokens = 1

\* ---- C5
HardZeroKey(c) == c.max_parallel_requests = 0 \/ c.tpm_limit = 0 \/ c.rpm_limit = 0

\* C5: if the key-level tpm_limit, rpm_limit or max_parallel_requests is
\* exactly 0, every admission with that key is rejected with a 429, whatever
\* the key bucket holds (absent or present), and the call schedules no write
\* of a per-minute bucket.
C5_HardZeroRejects ==
  HardZeroKey(cfg) =>
    \A r \in Requests :
      /\ req[r].outcome # "admitted"
      /\ req[r].pc = "rejected" => req[r].error.status_code = STATUS_429
      /\ task[r] = <<>>

\* rpm_limit = 0: rejected while the key's bucket is present
C5_Witness ==
  /\ HardZeroKey(cfg)
  /\ \E r \in Requests :
       /\ req[r].pc = "rejected"
       /\ InStr("rpm_limit: 0", req[r].error)
       /\ \E q \in 1..(r - 1) : req[q].pc = "done" /\ req[q].hook = "success"
       /\ KeyBucket \in DOMAIN cache

\* ---- C6
\* some limit that applies to a request for the model is exactly 0
ZeroLimit(c, model) ==
  \/ c.user_id # NoId /\ (c.user_tpm_limit = 0 \/ c.user_rpm_limit = 0)
  \/ c.team_id # NoId /\ (c.team_tpm_limit = 0 \/ c.team_rpm_limit = 0)
  \/ c.end_user_id # NoId /\ (c.end_user_tpm_limit = 0 \/ c.end_user_rpm_limit = 0)
  \/ ModelLimit(c.model_tpm_limit, model) = 0
  \/ ModelLimit(c.model_rpm_limit, model) = 0

\* C6: for every scope a configured limit of exactly 0 denies all: an admission
\* is rejected when the user, team or end_user tpm/rpm limit is 0, or when the
\* per-model tpm or rpm limit of the requested model is 0, whether that
\* scope's bucket is absent or present and whatever its counters are.
C6_ZeroDeniesAll ==
  \A r \in Requests :
    (Decided(r) /\ ZeroLimit(cfg, req[r].model)) => req[r].outcome = "rejected"

\* ---- C7
\* request r is inside its pre-call hook
InPreCall(r) ==
  req[r].pc \in {"pre_get_global", "pre_incr_global", "pre_batch_get", "pre_model_get"}

\* C7: whenever admission rejects at any scope, none of the pending bucket
\* writes accumulated for earlier scopes in that call is ever applied: every
\* step of a pre-call hook leaves every per-minute bucket as it was, and a
\* call that rejected leaves no background write behind, then or later.
C7_RejectionWritesNothing ==
  [][\A r \in Requests :
       /\ (InPreCall(r) /\ req'[r] # req[r]) => Buckets(cache') = Buckets(cache)
       /\ req'[r].outcome = "rejected" => task'[r] = <<>>]_vars

\* the end-user scope rejected after the api_key, per-model and user scopes of
\* the same call had appended their writes; nothing was written
C7_Witness ==
  /\ cfg.max_parallel_requests = 2 /\ HasModelLimits(cfg) /\ cfg.user_id # NoId
  /\ \A r \in Requests :
       /\ req[r].pc = "rejected"
       /\ InStr("Hit limit for customer", req[r].error)
       /\ task[r] = <<>>
  /\ Buckets(cache) = <<>>

\* ---- the global in-flight counter
\* the counter's value; a counter not yet created counts as 0
GlobalCounter == IF GLOBAL_KEY \in DOMAIN cache THEN cache[GLOBAL_KEY] ELSE 0

\* every request carries global_max_parallel_requests and no other limit applies
GlobalOnly(c) ==
  /\ c.global_max_parallel_requests # None
  /\ KeyOnly([c EXCEPT !.global_max_parallel_requests = None])
  /\ c.max_parallel_requests = None /\ c.tpm_limit = None /\ c.rpm_limit = None

\* C8: with global_max_parallel_requests = G and the process-wide counter not
\* yet created, admissions with no reconciliation in between admit exactly the
\* first G requests and reject the next one with a reason containing "Global
\* Limit"; for G = 1 the first of two admits wins and the second is rejected.
C8_AdmitsFirstG ==
  (GlobalOnly(cfg) /\ NoReconciliation) =>
    \A r \in Requests :
      /\ (r <= cfg.global_max_parallel_requests /\ Decided(r)) =>
           req[r].outcome = "admitted"
      /\ (r = cfg.global_max_parallel_requests + 1 /\ Decided(r)) =>
           /\ req[r].outcome = "rejected"
           /\ InStr("Hit Global Limit", req[r].error)

\* C9: under any interleaving of concurrent admissions carrying the same
\* global_max_parallel_requests = G, the check-and-increment of the global
\* in-flight counter is race-free: the counter never exceeds G.
C9_CounterWithinCap ==
  (cfg.global_max_parallel_requests # None /\ ~cfg.orphans) =>
    GlobalCounter <= cfg.global_max_parallel_requests

\* C10: when every request carries global_max_parallel_requests, the counter
\* is incremented once per request that passes the global check and
\* decremented once by that request's success or failure hook, never for a
\* request admission rejected; so it is never negative, and it is back to 0
\* once every request has completed its hooks.
C10_CounterReturnsToZero ==
  (cfg.global_max_parallel_requests # None /\ ~cfg.orphans) =>
    /\ GlobalCounter >= 0
    /\ (\A r \in Requests : req[r].pc = "done") => GlobalCounter = 0

\* ---- C11
\* the first request of a behaviour, every other request still idle: with a cap
\* of 2 or more it passes the global check on a counter not yet created
FirstAlone ==
  /\ cfg.global_max_parallel_requests # None
  /\ cfg.global_max_parallel_requests >= 2
  /\ ~cfg.orphans
  /\ \A r \in Requests \ {1} : req[r].pc = "idle"

\* C11: if admission increments the global in-flight counter and a later scope
\* then rejects the request, the increment is still in place when the
\* rejection is returned, and the failure hook run with that rejection's
\* error decrements the counter by 1, restoring its pre-request value.
C11_FailureHookUndoesIncrement ==
  FirstAlone =>
    /\ (req[1].pc = "rejected" /\ ~InStr("Hit Global Limit", req[1].error))
         => GlobalCounter = 1
    /\ (req[1].pc = "done" /\ req[1].outcome = "rejected" /\ req[1].hook = "failure")
         => GlobalCounter = 0

\* ---- C12
\* request r is inside the part of the failure hook that updates the cache
InFailureUpdate(r) ==
  req[r].pc \in {"fail_get_global", "fail_decr_global", "fail_get", "fail_set"}

\* C12: when the failure hook is invoked with an exception whose message
\* contains "Max parallel request limit reached" it is a no-op: the hook never
\* reaches its cache updates with such an exception, and the step that runs it
\* for a request the gate rejected with that message ends it at once and
\* leaves every bucket and the global in-flight counter as they were.
C12_GateFailureIsNoOp ==
  [][\A r \in Requests :
       /\ (req[r].pc = "rejected" /\ InStr(MAX_PARALLEL_PHRASE, req[r].error)
             /\ req'[r].hook = "failure")
          => (req'[r].pc = "done" /\ cache' = cache /\ expires' = expires)
       /\ InFailureUpdate(r)' => ~InStr(MAX_PARALLEL_PHRASE, req'[r].error)]_vars

\* the failure hook has run for a request the gate rejected while another
\* request holds a slot of the key's bucket, and the slot is still held
C12_Witness ==
  /\ \E r \in Requests :
       /\ req[r].pc = "done" /\ req[r].hook = "failure"
       /\ req[r].outcome = "rejected" /\ req[r].gate_error
  /\ \E r \in Requests : req[r].pc = "admitted"
  /\ KeyBucket \in DOMAIN cache /\ cache[KeyBucket].current_requests = 1

\* ---- C13
\* C13: for every rejection that admission can produce (at the global,
\* api_key, per-model, user, team or end_user scope), running the failure hook
\* with that rejection's error changes no per-minute bucket.
C13_RejectedFailureChangesNoBucket ==
  [][\A r \in Requests :
       (req[r].outcome = "rejected" /\ req[r].hook = "failure" /\ req'[r] # req[r])
         => Buckets(cache') = Buckets(cache)]_vars

\* ---- C14
Max0(x) == IF x > 0 THEN x ELSE 0

\* the buckets the success hook of request q updates
SuccessKeys(q) ==
  {ScopeKey(UserApiKeyDict(q), SuccessScopes(UserApiKeyDict(q))[i], q.model, q.pm) :
     i \in 1..Len(SuccessScopes(UserApiKeyDict(q)))}

\* C14: on success, for each present scope (api_key, per-(api_key, model)
\* when configured, user, team, end_user) whose bucket holds {r, t, p}, the
\* hook writes {max(r - 1, 0), t + total_tokens, p + 1} for that bucket (hooks
\* one at a time, writes landed); so one admit on a fresh key followed by a
\* success with total_tokens = 137 leaves the key bucket at {0, 137, 1}.
C14_SuccessUpdatesEveryScope ==
  [][\A r \in Requests :
       /\ (cfg.serial /\ ~late /\ req[r].pc = "suc_batch_set" /\ req'[r].pc = "done")
          => \A k \in SuccessKeys(req[r]) \cap DOMAIN cache :
               /\ k \in DOMAIN cache'
               /\ cache'[k] = Bucket(Max0(cache[k].current_requests - 1),
                                     cache[k].current_tpm + req[r].tokens,
                                     cache[k].current_rpm + 1)
       /\ (cfg.serial /\ ~late /\ r = 1 /\ Reconciled(1)' /\ req'[1].tokens = 137
             /\ \A q \in Requests \ {1} : req'[q].pc = "idle")
          => (KeyBucket \in DOMAIN cache' /\ cache'[KeyBucket] = Bucket(0, 137, 1))]_vars

\* two requests hold a slot in all five buckets and one of them has succeeded:
\* each bucket went from {2, 0, 0} to {1, 1, 1}
C14_Witness ==
  /\ cfg.serial /\ ~late
  /\ Reconciled(1) /\ req[2].pc = "admitted" /\ req[2].model = "gpt-4"
  /\ \A k \in {KeyBucket, ModelRequestCountKey(api_key, "gpt-4", 0),
               RequestCountKey("user1", 0), RequestCountKey("team1", 0),
               RequestCountKey("customer1", 0)} :
       k \in DOMAIN cache /\ cache[k] = Bucket(1, 1, 1)

\* one admit on a fresh key and a success with total_tokens = 137
C14_Scenario137 ==
  /\ Reconciled(1) /\ req[1].tokens = 137
  /\ \A q \in Requests \ {1} : req[q].pc = "idle"
  /\ cache[KeyBucket] = Bucket(0, 137, 1)

\* ---- C15
\* the failure hook of request q has run to its end on an upstream error
FailedUpstream(q) ==
  /\ req[q].pc = "done" /\ req[q].hook = "failure"
  /\ req[q].outcome = "admitted" /\ ~req[q].orphan /\ ~req[q].gate_error

\* C15: on a failure whose message is not a gate rejection, the hook rewrites
\* the api_key bucket of the current minute with current_requests decreased by
\* 1 and floored at 0 and with current_tpm and current_rpm exactly as read
\* (hooks one at a time, writes landed), and no other bucket; so one admit
\* followed by an upstream error leaves current_requests at 0 and tpm/rpm
\* unchanged.
C15_FailureReleasesKeySlot ==
  [][\A r \in Requests :
       (cfg.serial /\ ~late /\ req[r].pc = "fail_set" /\ req'[r].pc = "done")
       => LET k == RequestCountKey(api_key, req[r].pm)
          IN /\ k \in DOMAIN cache'
             /\ k \in DOMAIN cache
                => cache'[k] = Bucket(Max0(cache[k].current_requests - 1),
                                      cache[k].current_tpm, cache[k].current_rpm)
             /\ (k \notin DOMAIN cache /\ minute = req[r].pm)
                => cache'[k] = Bucket(0, 0, 0)
             /\ \A x \in DOMAIN cache \ {k} : x \in DOMAIN cache' /\ cache'[x] = cache[x]
             /\ (minute = req[r].pm /\ \A q \in Requests \ {r} : req[q].pc = "idle")
                => cache'[k] = Bucket(0, 0, 0)]_vars

\* after an admit/success pair a second request is admitted and fails upstream:
\* the key bucket goes from {1, 1, 1} to {0, 1, 1}
C15_Witness ==
  /\ cfg.serial /\ ~late /\ KeyOnly(cfg) /\ cfg.max_parallel_requests = 2
  /\ Reconciled(1) /\ FailedUpstream(2) /\ req[3].pc = "idle"
  /\ cache[KeyBucket] = Bucket(0, 1, 1)

\* ---- C16
\* current_requests of bucket k in the buckets b, an absent bucket counting as 0
RequestsIn(b, k) == IF k \in DOMAIN b THEN b[k].current_requests ELSE 0

\* request r ends a cycle that no other hook interleaved with, in the minute of
\* its admission and with its admission's writes landed
ClosesCycle(r, last) ==
  /\ cfg.serial /\ ~late
  /\ req[r].before # <<>>
  /\ req[r].pm = minute
  /\ req[r].pc = last /\ req'[r].pc = "done"

\* C16: an admitted-then-success cycle of one request, not interleaved with
\* other requests and within one minute, leaves current_requests of every
\* bucket the request touches equal to its value before the admission (an
\* absent bucket counting as 0).
C16_SuccessCycleRestores ==
  [][\A r \in Requests :
       ClosesCycle(r, "suc_batch_set")
       => \A k \in SuccessKeys(req[r]) :
            RequestsIn(Buckets(cache'), k) = RequestsIn(req[r].before[1], k)]_vars

\* ---- C17
\* current_tpm and current_rpm of bucket k in the buckets b (0 when absent)
RatesIn(b, k) ==
  IF k \in DOMAIN b THEN <<b[k].current_tpm, b[k].current_rpm>> ELSE <<0, 0>>

\* C17: after an admitted-then-failure cycle of one request (upstream failure,
\* not interleaved, same minute), every bucket in which the admission
\* incremented current_requests has current_requests back at its value before
\* the admission, and its current_tpm and current_rpm are unchanged.
C17_FailureCycleRestores ==
  [][\A r \in Requests :
       ClosesCycle(r, "fail_set")
       => \A k \in DOMAIN Buckets(cache) :
            RequestsIn(Buckets(cache), k) > RequestsIn(req[r].before[1], k)
            => /\ RequestsIn(Buckets(cache'), k) = RequestsIn(req[r].before[1], k)
               /\ RatesIn(Buckets(cache'), k) = RatesIn(req[r].before[1], k)]_vars

\* ---- C18
\* only per-model rpm limits bound the principal, within one minute, every
\* scheduled write landed before the next hook started
C18_Case ==
  /\ cfg.serial /\ ~late /\ minute = 0
  /\ cfg.model_rpm_limit # <<>> /\ cfg.model_tpm_limit = <<>>
  /\ cfg.global_max_parallel_requests = None
  /\ cfg.tpm_limit = None /\ cfg.rpm_limit = None
  /\ cfg.user_tpm_limit = None /\ cfg.user_rpm_limit = None
  /\ cfg.team_tpm_limit = None /\ cfg.team_rpm_limit = None
  /\ cfg.end_user_tpm_limit = None /\ cfg.end_user_rpm_limit = None

\* the requests before r that were admitted for model m
AdmittedFor(r, m) ==
  {q \in 1..(r - 1) : req[q].outcome = "admitted" /\ req[q].model = m}

\* C18 as stated: where model_rpm_limit gives model m the limit L >= 1, the
\* (L+1)-th admission for m in one minute is rejected with a reason containing
\* "RPM limit for model: m" (here with no reconciliation run in between).
C18_AsStated ==
  (C18_Case /\ NoReconciliation) =>
    \A r \in Requests :
      LET L == ModelLimit(cfg.model_rpm_limit, req[r].model)
      IN (Decided(r) /\ L >= 1 /\ Cardinality(AdmittedFor(r, req[r].model)) = L)
         => /\ req[r].outcome = "rejected"
            /\ InStr("Hit RPM limit for model: " \o req[r].model, req[r].error)

\* request q is over: admitted and reconciled by the success hook, or rejected
Settled(q) == Reconciled(q) \/ (req[q].outcome = "rejected" /\ ~req[q].orphan)

\* C18, amended: where model_rpm_limit gives model m the limit L >= 1, in a
\* serialised workload whose writes land before the next hook starts, once L
\* admissions for m in the minute have each been followed by their success
\* reconciliation, the next admission for m in that minute is rejected with a
\* reason containing "RPM limit for model: m", while an admission in the same
\* minute for a model with no entry in the per-model maps is admitted.
C18_RejectsAfterLSuccesses ==
  [][\A r \in Requests :
       ( /\ C18_Case
         /\ cfg.prompt
         /\ \A q \in 1..(r - 1) : Settled(q)
         /\ req[r].pc = "pre_model_get"
         /\ req'[r].pc # "pre_model_get" )
       => LET m == req[r].model
              L == ModelLimit(cfg.model_rpm_limit, m)
          IN /\ (L >= 1 /\ Cardinality(AdmittedFor(r, m)) = L)
                => /\ req'[r].outcome = "rejected"
                   /\ InStr("Hit RPM limit for model: " \o m, req'[r].error)
             /\ L = None => req'[r].outcome = "admitted"]_vars

\* {"gpt-4": 1}: a gpt-4 admit/success pair, the second gpt-4 admission
\* rejected, and a gpt-3.5 admission admitted in the same minute
C18_Witness ==
  /\ C18_Case /\ cfg.prompt
  /\ ModelLimit(cfg.model_rpm_limit, "gpt-4") = 1
  /\ Reconciled(1) /\ req[1].model = "gpt-4"
  /\ req[2].outcome = "rejected" /\ req[2].model = "gpt-4"
  /\ InStr("Hit RPM limit for model: gpt-4", req[2].error)
  /\ req[3].pc = "admitted" /\ req[3].model = "gpt-3.5"

\* ---- C19
\* the verdict of one of the user, team and end_user scopes taken alone
IdVerdict(id, tpm_limit, rpm_limit, rate_limit_type, current, pm, now) ==
  IF id = NoId THEN Pass
  ELSE CheckKeyInLimits(current, maxsize, OrMaxsize(tpm_limit), OrMaxsize(rpm_limit),
                        RequestCountKey(id, pm), rate_limit_type, now)

\* the verdicts of the user, team and end_user scopes on a snapshot, in order,
\* for a request carrying the end-user id end_user
IdVerdicts(end_user, snap, pm, now) ==
  <<IdVerdict(cfg.user_id, cfg.user_tpm_limit, cfg.user_rpm_limit, "user",
              snap.request_count_user_id, pm, now),
    IdVerdict(cfg.team_id, cfg.team_tpm_limit, cfg.team_rpm_limit, "team",
              snap.request_count_team_id, pm, now),
    IdVerdict(end_user, cfg.end_user_tpm_limit, cfg.end_user_rpm_limit,
              "customer", snap.request_count_end_user_id, pm, now)>>

\* request r comes out of the step as the earliest rejection among the
\* verdicts says, admitted when none of them rejects
FirstRejectionWins(r, verdicts) ==
  LET rejections == SelectSeq(verdicts, LAMBDA v : v.kind = "reject")
  IN IF rejections = <<>>
     THEN req'[r].pc = "admitted"
     ELSE req'[r].pc = "rejected" /\ req'[r].error = rejections[1].error

\* C19: admission evaluates the scopes in the order global, api_key,
\* per-(api_key, model), user, team, end_user; the earliest scope whose own
\* verdict is a rejection gives the rejection reason, and the hook ends there:
\* a global rejection happens before the bucket reads, an api_key rejection
\* before the per-model read, and the per-model verdict comes before the user,
\* team and end_user ones.
C19_FirstRejectingScopeWins ==
  [][\A r \in Requests :
       /\ (req[r].pc = "pre_get_global" /\ req'[r].pc # "pre_get_global")
          => \E now \in cfg.clock :
               LET global == GlobalCheck(CacheGet(cache, GLOBAL_KEY),
                                         cfg.global_max_parallel_requests, now)
               IN IF global.kind = "reject"
                  THEN req'[r].pc = "rejected" /\ req'[r].error = global.error
                  ELSE req'[r].pc = "pre_incr_global"
       /\ (req[r].pc = "pre_batch_get" /\ req'[r].pc # "pre_batch_get")
          => \E now \in cfg.clock :
               LET snap == GetAllCacheObjects(cache, UserApiKeyDict(req[r]), req[r].pm)
                   key == KeyScope(snap.request_count_api_key,
                                   OrMaxsize(cfg.max_parallel_requests),
                                   OrMaxsize(cfg.tpm_limit), OrMaxsize(cfg.rpm_limit),
                                   req[r].pm, now)
               IN IF key.kind = "reject"
                  THEN req'[r].pc = "rejected" /\ req'[r].error = key.error
                  ELSE IF HasModelLimits(cfg)
                  THEN req'[r].pc = "pre_model_get"
                  ELSE FirstRejectionWins(r, IdVerdicts(req[r].end_user, snap,
                                                        req[r].pm, now))
       /\ (req[r].pc = "pre_model_get" /\ req'[r].pc # "pre_model_get")
          => \E now \in cfg.clock :
               LET model == ModelScope(
                              CacheGet(cache, ModelRequestCountKey(api_key, req[r].model,
                                                                   req[r].pm)),
                              ModelLimit(cfg.model_tpm_limit, req[r].model),
                              ModelLimit(cfg.model_rpm_limit, req[r].model),
                              req[r].model, req[r].pm, now)
               IN FirstRejectionWins(r, <<model>> \o IdVerdicts(req[r].end_user, req[r].snap,
                                                               req[r].pm, now))]_vars

\* user, team and end_user limits are all 0: the rejection is the user scope's
C19_Witness ==
  /\ cfg.user_rpm_limit = 0 /\ cfg.team_tpm_limit = 0 /\ cfg.end_user_rpm_limit = 0
  /\ cfg.rpm_limit = None /\ cfg.global_max_parallel_requests = None
  /\ req[1].pc = "rejected"
  /\ InStr("Hit limit for user", req[1].error)

\* ---- C20
\* the requests that carry a rejection of the gate
Rejections == {r \in Requests : req[r].error.status_code = STATUS_429}

\* the retry-after of e is 60 - now.second - now.microsecond/1e6 for a time the
\* clock can show, in microseconds
RetryAfterOfClock(e) ==
  \E now \in cfg.clock :
    e.retry_after = 60 * 1000000 - now.second * 1000000 - now.microsecond

\* C20 as stated: the retry-after of a rejection equals
\* 60 - now.second - now.microsecond/1e6 and lies in [0, 60) seconds for every
\* current time, a minute boundary included.
C20_AsStated ==
  \A r \in Rejections :
    /\ RetryAfterOfClock(req[r].error)
    /\ 0 <= req[r].error.retry_after /\ req[r].error.retry_after < 60 * 1000000

\* C20, amended: the retry-after of a rejection equals
\* 60 - now.second - now.microsecond/1e6 and lies in (0, 60] seconds: it is
\* exactly 60 at a minute boundary and never 0.
C20_RetryAfterWithinMinute ==
  \A r \in Rejections :
    /\ RetryAfterOfClock(req[r].error)
    /\ 0 < req[r].error.retry_after /\ req[r].error.retry_after <= 60 * 1000000

\* rejections exactly on a minute boundary (60 s) and one microsecond before
\* the next one (0.000001 s)
C20_Witness ==
  /\ cfg.clock = Instants
  /\ req[1].pc = "rejected" /\ req[1].error.retry_after = 60 * 1000000
  /\ req[2].pc = "rejected" /\ req[2].error.retry_after = 1

\* ---- C21
\* C21: when admission rejects a request, the request's metadata is exactly as
\* it was before the call: no remaining-budget fields have been added to it.
C21_RejectionLeavesMetadata ==
  \A r \in Requests : req[r].pc = "rejected" => req[r].meta = <<>>

\* ---- C22
\* the first two requests were both admitted, for the same model, before any
\* other hook ran, and nothing else has been called
FirstTwoAdmitted ==
  /\ cfg.serial /\ cfg.prompt /\ ~late /\ minute = 0
  /\ cfg.global_max_parallel_requests = None
  /\ req[1].outcome = "admitted" /\ req[2].outcome = "admitted"
  /\ req[1].model = req[2].model
  /\ \A q \in Requests \ {1, 2} : req[q].pc = "idle"

\* the pre-call hook has been invoked twice in succession with the same
\* arguments and the second invocation's write is about to land
SecondPreCall ==
  /\ FirstTwoAdmitted
  /\ req[1].pc = "admitted" /\ task[1] = <<>>
  /\ req[2].pc = "admitted" /\ task[2] # <<>>

\* the reconciliation hook `hook` has been invoked twice in succession with the
\* same arguments (after both admissions) and the second invocation is at its
\* write
SecondReconciliation(hook, at) ==
  /\ FirstTwoAdmitted
  /\ req[1].pc = "done" /\ req[1].hook = hook /\ ~req[1].orphan
  /\ req[2].pc = at /\ ~req[2].orphan /\ req[2].before = <<>>
  /\ req[1].tokens = req[2].tokens

C23_AbsentBucketDefault ==
  [][\A r \in Requests :
       (cfg.serial /\ minute = req[r].pm
          /\ req[r].pc = "suc_batch_set" /\ req'[r].pc = "done")
       => \A k \in SuccessKeys(req[r]) \ DOMAIN cache :
            /\ k \in DOMAIN cache'
            /\ cache'[k] = Bucket(0, req[r].tokens, 1)]_vars

\* ---- C24
\* the bucket keys, in minute pm, of the scopes none of whose limits is set
UnlimitedScopeKeys(pm) ==
  (IF cfg.max_parallel_requests = None /\ cfg.tpm_limit = None /\ cfg.rpm_limit = None
   THEN {RequestCountKey(api_key, pm)} ELSE {})
  \cup (IF cfg.user_id # NoId /\ cfg.user_tpm_limit = None /\ cfg.user_rpm_limit = None
        THEN {RequestCountKey(cfg.user_id, pm)} ELSE {})
  \cup (IF cfg.team_id # NoId /\ cfg.team_tpm_limit = None /\ cfg.team_rpm_limit = None
        THEN {RequestCountKey(cfg.team_id, pm)} ELSE {})
  \cup (IF cfg.end_user_id # NoId /\ cfg.end_user_tpm_limit = None
           /\ cfg.end_user_rpm_limit = None
        THEN {RequestCountKey(cfg.end_user_id, pm)} ELSE {})

\* the bucket keys of the writes a pre-call hook has scheduled
ScheduledKeys(writes) == {writes[i][1] : i \in 1..Len(writes)}

\* C24: when all limits of a scope (api_key, user, team or end_user) are unset,
\* admission schedules no write to that scope's bucket.
C24_UnlimitedScopeSkipped ==
  [][\A r \in Requests :
       (req[r].pc \in {"pre_batch_get", "pre_model_get"} /\ req'[r].pc = "admitted")
       => ScheduledKeys(task'[r]) \cap UnlimitedScopeKeys(req[r].pm) = {}]_vars

\* ---- C25
\* C25: the failure hook never writes the user, team, end_user or
\* per-(api_key, model) buckets: entering it changes nothing, and each of its
\* steps leaves every cache entry other than the api_key bucket of the hook's
\* minute and the global in-flight counter as it was, under every interleaving.
C25_FailureWritesOnlyKeyBucket ==
  [][\A r \in Requests :
       /\ (req[r].hook # "failure" /\ req'[r].hook = "failure") => cache' = cache
       /\ (InFailureUpdate(r) /\ req'[r].pc # req[r].pc)
          => \A k \in (DOMAIN cache \cup DOMAIN cache')
                        \ {GLOBAL_KEY, RequestCountKey(api_key, req[r].pm)} :
               /\ k \in DOMAIN cache /\ k \in DOMAIN cache'
               /\ cache'[k] = cache[k]]_vars

\* a request admitted under a user limit has failed upstream: the key bucket
\* was rewritten and the user's bucket still holds the admission's increment
C25_Witness ==
  /\ cfg.user_id # NoId
  /\ \E r \in Requests : FailedUpstream(r)
  /\ KeyBucket \in DOMAIN cache /\ cache[KeyBucket].current_requests = 0
  /\ RequestCountKey(cfg.user_id, 0) \in DOMAIN cache
  /\ cache[RequestCountKey(cfg.user_id, 0)].current_requests >= 1

\* ---- C26
\* request q was admitted in a minute before pm and never reconciled
Leaked(q, pm) == req[q].pc = "admitted" /\ task[q] = <<>> /\ req[q].pm < pm

\* the minute of the admission request r is about to be decided in
AdmissionMinute(r) == IF req[r].pc = "pre_get_global" THEN minute ELSE req[r].pm

\* C26: a reservation that is never reconciled affects admission decisions only
\* in the minute it was made in: an admission of a later minute, with nothing
\* else outstanding, is decided as on an empty cache, that is admitted; and no
\* bucket outlives the 60 seconds after its last write.
C26_LeakConfinedToItsMinute ==
  [][/\ \A r \in Requests :
          ( /\ ~Decided(r) /\ Decided(r)'
            /\ \E q \in Requests : Leaked(q, AdmissionMinute(r))
            /\ \A q \in Requests \ {r} :
                 req[q].pc = "idle" \/ Leaked(q, AdmissionMinute(r)) )
          => req'[r].outcome = "admitted"
     /\ \A k \in DOMAIN Buckets(cache') :
          k \in DOMAIN expires' /\ expires'[k] >= minute']_vars

\* requests admitted and not yet reconciled by a success or a failure hook
Outstanding ==
  {r \in Requests : req[r].outcome = "admitted" /\ req[r].pc # "done"}

\* C27: within one minute, with hooks run one at a time and every admission
\* write landed before the next hook reads, the requests admitted for the
\* api_key and not yet reconciled never number more than max_parallel_requests.
C27_OutstandingWithinMaxParallel ==
  (cfg.serial /\ ~late /\ ~cfg.orphans /\ minute = 0
     /\ cfg.max_parallel_requests # None)
  => Cardinality(Outstanding) <= cfg.max_parallel_requests

\* C28: for a key with rpm_limit = R, with hooks run one at a time and every
\* admission write landed before the next hook, the key bucket's current_rpm
\* never exceeds R: at most R requests of the key are admitted and completed
\* successfully in a minute.
C28_RpmWithinLimit ==
  (cfg.serial /\ ~late /\ ~cfg.orphans /\ cfg.rpm_limit # None)
  => \A pm \in 0..MaxMinute :
       RequestCountKey(api_key, pm) \in DOMAIN cache
       => cache[RequestCountKey(api_key, pm)].current_rpm <= cfg.rpm_limit

\* C29: while a bucket lives, its current_tpm and current_rpm never decrease,
\* whatever the interleaving of the hooks of admitted requests and of the
\* unawaited admission write: no step replaces a bucket by one with less token
\* or request usage.
C29_UsageNeverDecreases ==
  [][~cfg.orphans =>
       \A k \in (DOMAIN cache \cap DOMAIN cache') \ {GLOBAL_KEY} :
         /\ cache'[k].current_tpm >= cache[k].current_tpm
         /\ cache'[k].current_rpm >= cache[k].current_rpm]_vars

\* every request of the behaviour was a success hook alone (its admission was
\* made before the behaviour began) and all of them have returned
OnlySuccessHooks ==
  \A r \in Requests :
    req[r].pc = "done" /\ req[r].hook = "success" /\ req[r].orphan

\* C30: when N success hooks for the api_key run concurrently in one minute,
\* with no admission in between, no update is lost: the key bucket ends with
\* current_rpm raised by N and current_tpm raised by the sum of the N
\* total_tokens (from 0: the minute's bucket did not exist before them).
C30_NoLostUpdate ==
  (cfg.orphans /\ ~cfg.ticks /\ OnlySuccessHooks)
  => /\ KeyBucket \in DOMAIN cache
     /\ cache[KeyBucket].current_rpm = Cardinality(Requests)
     /\ cache[KeyBucket].current_tpm = SumTokens(Requests)
====
